---- MODULE Spec2Model ----
(***************************************************************************)
(* Model of src/src/sigtypst2022.py: the gap-merge transform (ungap), the  *)
(* split builder (split_training_test_data) and the Baseline predictor     *)
(* (Baseline.__init__, Baseline.fit, Baseline.predict).                    *)
(*                                                                         *)
(* A sound sequence is a sequence of tokens (strings).  An alignment cell  *)
(* is a Python string; it is modelled as the sequence of its "."-separated *)
(* components, so that  x + "." + y  is  x \o y,  the empty string is <<>> *)
(* and the gap cell "-" is <<"-">>.                                        *)
(***************************************************************************)
EXTENDS Integers, Sequences, FiniteSets, TLC

VARIABLES
    pc,          \* position of the driver of the component under study
    alignment,   \* ungap: the alignment passed in (list of rows of cells)
    taxa,        \* ungap: the `languages` argument, one taxon per row
    proto,       \* ungap: the reference language
    ungapped,    \* ungap: result of ungap(alignment, taxa, proto)
    reungapped,  \* ungap: result of ungap(ungapped, taxa, proto)
    languages,   \* the languages of the header of the cognate file
    data,        \* the cognate sets, in file order: <<[key, values], ...>>
    ratio,       \* split: the ratio, as <<numerator, denominator>>
    training,    \* split: the returned training pool
    test_,       \* split: the pool the derived items are made from
    test,        \* split: the derived items, by derived key
    solutions,   \* split: the masked values, by derived key
                 \* Baseline: self.solutions, the encoded labels by language
    gap,         \* Baseline: self.gap
    missing,     \* Baseline: self.missing
    aligner,     \* Baseline: how the external aligner pads the sequences
    alignments,  \* Baseline: self.alignments, by language
    to_predict,  \* Baseline: self.to_predict, by cogid
    patterns,    \* Baseline: self.patterns, recorded examples by language
    sound2idx,   \* Baseline: self.sound2idx
    idx2sound,   \* Baseline: self.idx2sound
    matrices,    \* Baseline: self.matrices, the encoded contexts by language
    prediction   \* Baseline: arguments, locals and result of the last predict

ungapVars == <<alignment, taxa, proto, ungapped, reungapped>>
splitVars == <<ratio, training, test_, test>>
configVars == <<gap, missing, aligner>>
fitVars == <<patterns, sound2idx, idx2sound, matrices>>
baselineVars == <<configVars, alignments, to_predict, fitVars, prediction>>

vars == <<pc, ungapVars, languages, data, splitVars, solutions, baselineVars>>

----------------------------------------------------------------------------
(* Bounds *)

MaxCells == 9

MaxItems == 2

MaxSets == 1

MaxCode == 3

----------------------------------------------------------------------------
(* Cells *)

GapCell == <<"-">>
EmptyCell == <<>>

CellSounds == {"a", "b"}

\* the cells an aligner produces: one sound, or the gap
Cells == {GapCell} \cup {<<s>> : s \in CellSounds}

TaxaLists == {<<"A", "P">>, <<"A", "B", "P">>, <<"P", "A", "B">>}

Protos == {"P", "B"}

\* the rectangular alignments of nrows rows with at most MaxCells cells
Alignments(nrows) ==
    UNION {[1..nrows -> [1..w -> Cells]] : w \in 0..(MaxCells \div nrows)}

----------------------------------------------------------------------------
(* ungap *)

\* rows of the reference language
pidxs(languages_, proto_) ==
    {i \in 1..Len(languages_) : languages_[i] = proto_}

\* the cells of column i outside the reference rows, as a set
col_rest(alignment_, languages_, proto_, i) ==
    {alignment_[j][i] : j \in (1..Len(alignment_)) \ pidxs(languages_, proto_)}

\* columns whose non-reference cells are all the gap
merges(alignment_, languages_, proto_) ==
    {i \in 1..Len(alignment_[1]) :
        /\ GapCell \in col_rest(alignment_, languages_, proto_, i)
        /\ Cardinality(col_rest(alignment_, languages_, proto_, i)) = 1}

\* the column index is taken one too high when looked up in merges
BranchOffByOne(j, merges_, mergeit, started) ==
    IF (j + 1) \in merges_ \/ mergeit
    THEN IF ~started THEN "merge" ELSE "open"
    ELSE "normal"

\* the branch the inner loop takes at column j: "merge" fuses the cell into
\* the last output cell, "open" appends it while no normal column was seen,
\* "normal" appends it and clears `started`
Branch(j, merges_, mergeit, started) ==
    IF j \in merges_ \/ mergeit
    THEN IF ~started THEN "merge" ELSE "open"
    ELSE "normal"

\* new_alm[-1] += cell / '.'+cell
Fuse(new_alm, cell) ==
    IF cell = GapCell
    THEN new_alm
    ELSE [new_alm EXCEPT ![Len(new_alm)] = @ \o cell]

\* a gap cell of an opening column is skipped instead of being appended as ""
OpenCellDropsGap(new_alm, cell) ==
    IF cell = GapCell THEN new_alm ELSE Append(new_alm, cell)

\* new_alm += [""] / new_alm += [cell]
OpenCell(new_alm, cell) ==
    Append(new_alm, IF cell = GapCell THEN EmptyCell ELSE cell)

RECURSIVE WalkRow(_, _, _, _, _, _)
WalkRow(row, j, merges_, new_alm, mergeit, started) ==
    IF j > Len(row)
    THEN new_alm
    ELSE LET b == Branch(j, merges_, mergeit, started)
         IN  CASE b = "merge" ->
                    WalkRow(row, j + 1, merges_, Fuse(new_alm, row[j]),
                            FALSE, started)
               [] b = "open" ->
                    WalkRow(row, j + 1, merges_, OpenCell(new_alm, row[j]),
                            TRUE, started)
               [] b = "normal" ->
                    WalkRow(row, j + 1, merges_, Append(new_alm, row[j]),
                            mergeit, FALSE)

\* the closing loop of a row: an empty cell becomes the gap
FillGaps(new_alm) ==
    [k \in 1..Len(new_alm) |->
        IF new_alm[k] = EmptyCell THEN GapCell ELSE new_alm[k]]

ungap(alignment_, languages_, proto_) ==
    LET m == merges(alignment_, languages_, proto_)
    IN  IF m # {}
        THEN [i \in 1..Len(alignment_) |->
                FillGaps(WalkRow(alignment_[i], 1, m, <<>>, FALSE, TRUE))]
        ELSE alignment_

----------------------------------------------------------------------------
(* Driver of ungap: one call, then a second call on the result *)

InitUngap ==
    /\ pc = "ungap"
    /\ taxa \in TaxaLists
    /\ proto \in Protos
    /\ alignment \in Alignments(Len(taxa))
    /\ ungapped = <<>>
    /\ reungapped = <<>>
    /\ languages = <<>>
    /\ data = <<>>
    /\ ratio = <<1, 10>>
    /\ training = <<>>
    /\ test_ = <<>>
    /\ test = <<>>
    /\ solutions = <<>>
    /\ gap = "-"
    /\ missing = "Ø"
    /\ aligner = "right"
    /\ alignments = <<>>
    /\ to_predict = <<>>
    /\ patterns = <<>>
    /\ sound2idx = <<>>
    /\ idx2sound = <<>>
    /\ matrices = <<>>
    /\ prediction = <<>>

CallUngap ==
    /\ pc = "ungap"
    /\ ungapped' = ungap(alignment, taxa, proto)
    /\ pc' = "ungap_once"
    /\ UNCHANGED <<alignment, taxa, proto, reungapped>>
    /\ UNCHANGED <<languages, data, splitVars, solutions, baselineVars>>

CallUngapAgain ==
    /\ pc = "ungap_once"
    /\ reungapped' = ungap(ungapped, taxa, proto)
    /\ pc' = "ungap_twice"
    /\ UNCHANGED <<alignment, taxa, proto, ungapped>>
    /\ UNCHANGED <<languages, data, splitVars, solutions, baselineVars>>

NextUngap == CallUngap \/ CallUngapAgain

SpecUngap == InitUngap /\ [][NextUngap]_vars

----------------------------------------------------------------------------
(* Cognate data, as load_cognate_file returns it *)

\* the forms of a field of the cognate file: empty, the placeholder, or sounds
Forms == {<<>>, <<"?">>, <<"a", "b">>}

\* the COGID of the i-th row; ids are strings and may contain "-"
KeyOf(i) == IF i = 2 THEN "1-1" ELSE ToString(i)

Keys(data_) == {data_[i].key : i \in 1..Len(data_)}

\* data[key]
Lookup(data_, key) ==
    (CHOOSE i \in 1..Len(data_) : data_[i].key = key)
    
Values(data_, key) == data_[Lookup(data_, key)].values

LangSet(languages_) == {languages_[i] : i \in 1..Len(languages_)}

CognateData(languages_) ==
    UNION {[1..n -> [LangSet(languages_) -> Forms]] : n \in 0..MaxItems}

\* rows of the file, each with its COGID
Keyed(rows) == [i \in 1..Len(rows) |-> [key |-> KeyOf(i), values |-> rows[i]]]

\* " ".join(tokens)
RECURSIVE Join(_)
Join(tokens) ==
    IF tokens = <<>> THEN ""
    ELSE IF Len(tokens) = 1 THEN tokens[1]
    ELSE tokens[1] \o " " \o Join(Tail(tokens))

\* d[k] = v on a dict modelled as a function
Put(d, k, v) == [x \in (DOMAIN d) \cup {k} |-> IF x = k THEN v ELSE d[x]]

\* d[k] of a defaultdict(dict)
GetDict(d, k) == IF k \in DOMAIN d THEN d[k] ELSE <<>>

----------------------------------------------------------------------------
(* split_training_test_data *)

Ratios == {<<1, 5>>, <<1, 2>>, <<4, 5>>}

\* int(len(data) * ratio + 0.5)
split_off(data_, ratio_) ==
    (2 * Len(data_) * ratio_[1] + ratio_[2]) \div (2 * ratio_[2])

\* the sort key: number of languages whose joined value is neither "" nor "?"
SortKey(values) ==
    Cardinality({l \in DOMAIN values : Join(values[l]) \notin {"", "?"}})

\* an ascending sort that is reversed afterwards: equal keys change places
BeforeTiesReversed(data_, i, j) ==
    \/ SortKey(data_[i].values) > SortKey(data_[j].values)
    \/ SortKey(data_[i].values) = SortKey(data_[j].values) /\ i > j

\* item i comes before item j in sorted(..., reverse=True), a stable sort
Before(data_, i, j) ==
    \/ SortKey(data_[i].values) > SortKey(data_[j].values)
    \/ SortKey(data_[i].values) = SortKey(data_[j].values) /\ i < j

\* the keys in the order of the sorted items
cognates(data_) ==
    [r \in 1..Len(data_) |->
        data_[CHOOSE i \in 1..Len(data_) :
                Cardinality({j \in 1..Len(data_) : Before(data_, j, i)}) = r - 1
             ].key]

\* {c: data[c] for c in keys}
Pool(data_, keys_) ==
    [i \in 1..Len(keys_) |-> [key |-> keys_[i], values |-> Values(data_, keys_[i])]]

\* the test of line 201 is on a non-empty join only, the placeholder passes
HasValue(values, language) == Join(values[language]) # ""

\* key+"-"+str(i+1), i counted from 0 in the code and from 1 here
new_key(key, i) == key \o "-" \o ToString(i)

\* cognates[split_off:], with the first item of the remainder lost
TrainingKeysSkipOne(sorted, n) == SubSeq(sorted, n + 2, Len(sorted))

\* cognates[split_off:]
TrainingKeys(sorted, n) == SubSeq(sorted, n + 1, Len(sorted))

\* cognates[:split_off]
TestKeys(sorted, n) == SubSeq(sorted, 1, n)

\* the value of the masked language copied in place of languageB's
CopiedValueOfMasked(item, language, languageB) == item.values[language]

\* test_[key][languageB]
CopiedValue(item, language, languageB) == item.values[languageB]

\* the loop over languageB for one (language, key) pair
RECURSIVE Derive(_, _, _, _, _)
Derive(acc, languages_, i, item, j) ==
    IF j > Len(languages_)
    THEN acc
    ELSE LET nk == new_key(item.key, i)
             language == languages_[i]
             languageB == languages_[j]
         IN  IF language # languageB
             THEN Derive([acc EXCEPT !.test =
                             Put(@, nk, Put(GetDict(@, nk), languageB,
                                            CopiedValue(item, language,
                                                        languageB)))],
                         languages_, i, item, j + 1)
             ELSE Derive([test |-> Put(acc.test, nk,
                                       Put(GetDict(acc.test, nk), language,
                                           <<"?">>)),
                          solutions |-> Put(acc.solutions, nk,
                                            Put(GetDict(acc.solutions, nk),
                                                language,
                                                item.values[language]))],
                         languages_, i, item, j + 1)

\* the loops over the languages and over the items of the pool
RECURSIVE Emit(_, _, _, _, _)
Emit(acc, languages_, pool, i, k) ==
    IF i > Len(languages_)
    THEN acc
    ELSE IF k > Len(pool)
    THEN Emit(acc, languages_, pool, i + 1, 1)
    ELSE IF HasValue(pool[k].values, languages_[i])
    THEN Emit(Derive(acc, languages_, i, pool[k], 1), languages_, pool, i, k + 1)
    ELSE Emit(acc, languages_, pool, i, k + 1)

----------------------------------------------------------------------------
(* Driver of split_training_test_data *)

SplitLanguages == <<"A", "B", "C">>

InitSplit ==
    /\ pc = "split"
    /\ languages = SplitLanguages
    /\ \E rows \in CognateData(languages) : data = Keyed(rows)
    /\ ratio \in Ratios
    /\ training = <<>>
    /\ test_ = <<>>
    /\ test = <<>>
    /\ solutions = <<>>
    /\ alignment = <<>>
    /\ taxa = <<>>
    /\ proto = ""
    /\ ungapped = <<>>
    /\ reungapped = <<>>
    /\ gap = "-"
    /\ missing = "Ø"
    /\ aligner = "right"
    /\ alignments = <<>>
    /\ to_predict = <<>>
    /\ patterns = <<>>
    /\ sound2idx = <<>>
    /\ idx2sound = <<>>
    /\ matrices = <<>>
    /\ prediction = <<>>

CallSplit ==
    /\ pc = "split"
    /\ LET n == split_off(data, ratio)
           sorted == cognates(data)
           pool == Pool(data, TestKeys(sorted, n))
           out == Emit([test |-> <<>>, solutions |-> <<>>], languages, pool, 1, 1)
       IN  /\ test_' = pool
           /\ training' = Pool(data, TrainingKeys(sorted, n))
           /\ test' = out.test
           /\ solutions' = out.solutions
    /\ pc' = "split_done"
    /\ UNCHANGED <<languages, data, ratio, ungapVars, baselineVars>>

NextSplit == CallSplit

SpecSplit == InitSplit /\ [][NextSplit]_vars

----------------------------------------------------------------------------
(* The external aligner behind simple_align (lingrex transform_alignment) *)

\* the defaults of simple_align; Baseline never passes its own gap or missing
AlignGap == "-"
AlignMissing == "Ø"

MaxLen(seqs) ==
    CHOOSE n \in {Len(seqs[j]) : j \in 1..Len(seqs)} :
        \A j \in 1..Len(seqs) : Len(seqs[j]) <= n

\* equal-length rows: each sequence padded with gaps on the right or the left
Align(seqs, policy) ==
    [j \in 1..Len(seqs) |->
        LET pad == [k \in 1..(MaxLen(seqs) - Len(seqs[j])) |-> AlignGap]
        IN  IF policy = "right" THEN seqs[j] \o pad ELSE pad \o seqs[j]]

\* one row per aligned position, one entry per language of all_languages:
\* the aligned sound of a language that is present, the missing symbol else
transform_alignment(seqs, languages_, all_languages, policy) ==
    LET alms == Align(seqs, policy)
        Idx(l) == CHOOSE j \in 1..Len(languages_) : languages_[j] = l
    IN  [i \in 1..MaxLen(seqs) |->
            [k \in 1..Len(all_languages) |->
                IF all_languages[k] \in LangSet(languages_)
                THEN alms[Idx(all_languages[k])][i]
                ELSE AlignMissing]]

simple_align(seqs, languages_, all_languages, policy) ==
    transform_alignment(seqs, languages_, all_languages, policy)

----------------------------------------------------------------------------
(* Baseline.__init__ *)

\* the languages of a cognate set with a value that is not the placeholder
Attested(languages_, values) ==
    LET Test(l) == values[l] # <<>> /\ Join(values[l]) # "?"
    IN  SelectSeq(languages_, Test)

\* the languages of a cognate set whose value is the placeholder
Placeholders(languages_, values) ==
    LET Test(l) == values[l] # <<>> /\ Join(values[l]) = "?"
    IN  SelectSeq(languages_, Test)

\* s without its i-th element
Without(s, i) == SubSeq(s, 1, i - 1) \o SubSeq(s, i + 1, Len(s))

\* the entry appended to self.alignments[languages[i]] for one cognate set
AlignmentEntry(cogid, languages_, values, i) ==
    LET present == Attested(languages_, values)
        alms == [j \in 1..Len(present) |-> values[present[j]]]
    IN  [cogid |-> cogid,
         languages |-> Without(present, i) \o <<present[i]>>,
         alms |-> Without(alms, i) \o <<alms[i]>>]

\* self.alignments[language] after the loop over the first n cognate sets
RECURSIVE AlignmentsOf(_, _, _, _)
AlignmentsOf(languages_, data_, language, n) ==
    IF n = 0
    THEN <<>>
    ELSE LET present == Attested(languages_, data_[n].values)
             before == AlignmentsOf(languages_, data_, language, n - 1)
         IN  IF language \in LangSet(present)
             THEN Append(before,
                         AlignmentEntry(data_[n].key, languages_, data_[n].values,
                                        CHOOSE i \in 1..Len(present) :
                                            present[i] = language))
             ELSE before

\* self.to_predict, a defaultdict(list): only the cogids with a placeholder
ToPredict(languages_, data_) ==
    [k \in {data_[n].key : n \in {m \in 1..Len(data_) :
                Placeholders(languages_, data_[m].values) # <<>>}} |->
        Placeholders(languages_, Values(data_, k))]

----------------------------------------------------------------------------
(* Baseline.fit *)

Min(a, b) == IF a < b THEN a ELSE b

\* row[:n] and row[n:] of Python, n >= 0
SliceTo(row, n) == SubSeq(row, 1, Min(n, Len(row)))
SliceFrom(row, n) == SubSeq(row, n + 1, Len(row))

\* tuple(row[:len(self.languages)]+row[len(self.languages)+1:])
Context(row, n) == SliceTo(row, n) \o SliceFrom(row, n + 1)

\* row[len(self.languages)-1]
Label(row, n) == row[n]

\* [l for l in self.languages if l != language]
Others(languages_, language) ==
    LET Test(l) == l # language
    IN  SelectSeq(languages_, Test)

\* the matrix of one entry of self.alignments[language]
TrainingMatrix(languages_, language, entry, policy) ==
    simple_align(entry.alms, entry.languages,
                 Others(languages_, language) \o <<language>>, policy)

\* what the loop over the rows of one matrix records, in row order; idx is
\* the row number, counted from 1 here and from 0 in the code
Recorded(languages_, language, entry, policy) ==
    LET m == TrainingMatrix(languages_, language, entry, policy)
    IN  [i \in 1..Len(m) |->
            [ptn |-> Context(m[i], Len(languages_)),
             sound |-> Label(m[i], Len(languages_)),
             last |-> m[i][Len(m[i])],
             cogid |-> entry.cogid,
             idx |-> i]]

\* the examples of one language, in recording order
RECURSIVE PatternsOf(_, _, _, _, _)
PatternsOf(languages_, alignments_, language, policy, n) ==
    IF n = 0
    THEN <<>>
    ELSE PatternsOf(languages_, alignments_, language, policy, n - 1)
            \o Recorded(languages_, language, alignments_[language][n], policy)

SeqRange(s) == {s[i] : i \in 1..Len(s)}

\* the set `sounds`: every sound of every context, and row[-1] of every row
Sounds(patterns_) ==
    UNION {UNION {SeqRange(patterns_[l][i].ptn) \cup {patterns_[l][i].last} :
                     i \in 1..Len(patterns_[l])} :
              l \in DOMAIN patterns_}

\* the symbols of the model in code point order, the order of sorted()
Alphabet == <<"+", "-", "?", "a", "b", "z", "Ø">>

Sorted(sounds) ==
    LET Test(x) == x \in sounds
    IN  SelectSeq(Alphabet, Test)

\* the codes are dealt from 1, the code of the gap
SoundCodesFromOne(sounds) ==
    [x \in sounds |->
        (CHOOSE i \in 1..Len(Sorted(sounds)) : Sorted(sounds)[i] = x)]

\* dict(zip(sorted(sounds), range(2, len(sounds)+2)))
SoundCodes(sounds) ==
    [x \in sounds |->
        (CHOOSE i \in 1..Len(Sorted(sounds)) : Sorted(sounds)[i] = x) + 1]

\* self.sound2idx after the two assignments for the gap and the missing symbol
Sound2idx(sounds, gap_, missing_) ==
    Put(Put(SoundCodes(sounds), gap_, 1), missing_, 0)

\* the keys of self.sound2idx in insertion order
KeyOrder(sounds, gap_, missing_) ==
    Sorted(sounds)
        \o (IF gap_ \in sounds THEN <<>> ELSE <<gap_>>)
        \o (IF missing_ \in sounds \cup {gap_} THEN <<>> ELSE <<missing_>>)

\* {v: k for k, v in self.sound2idx.items()}: the last key of a code wins
Idx2sound(s2i, order) ==
    [v \in {s2i[k] : k \in DOMAIN s2i} |->
        order[CHOOSE j \in 1..Len(order) :
                /\ s2i[order[j]] = v
                /\ \A h \in (j + 1)..Len(order) : s2i[order[h]] # v]]

\* [self.sound2idx[s] for s in pattern]
EncodePattern(s2i, ptn_) == [j \in 1..Len(ptn_) |-> s2i[ptn_[j]]]

----------------------------------------------------------------------------
(* Baseline.predict *)

\* a symbol without a code gets the code of the gap
EncodeUnseenAsGap(s2i, char) == IF char \in DOMAIN s2i THEN s2i[char] ELSE 1

\* self.sound2idx.get(char, 0)
Encode(s2i, char) == IF char \in DOMAIN s2i THEN s2i[char] ELSE 0

\* self.idx2sound.get(idx, unknown)
Decode(i2s, idx, unknown) == IF idx \in DOMAIN i2s THEN i2s[idx] ELSE unknown

\* [x for x in out if x != "-"]
DropGaps(out) ==
    LET Test(x) == x # "-"
    IN  SelectSeq(out, Test)

\* the labels the classifier of the target returns: opaque, one per row; the
\* rows get the codes c, c+1, ... (mod MaxCode+1) for a free first code c
ClassifierOutputs(nrows) ==
    {[i \in 1..nrows |-> (c + i - 1) % (MaxCode + 1)] : c \in 0..MaxCode}

----------------------------------------------------------------------------
(* Driver of Baseline: construction, fit, then predictions *)

BaselineLanguages == <<"A", "B", "C">>

\* the fields of the training file: absent, placeholder, or a sound sequence
TrainForms == {<<>>, <<"?">>, <<"a">>, <<"b", "a">>}

\* the sequences handed to predict; "z" never occurs in the training file
PredictForms == {<<"a">>, <<"z", "b">>}

\* gap, missing and the behaviour of the aligner
Configs ==
    {<<"-", "Ø", "right">>, <<"-", "Ø", "left">>,
     <<"+", "Ø", "right">>, <<"-", "-", "right">>}

InitBaseline ==
    /\ pc = "new"
    /\ languages = BaselineLanguages
    /\ \E rows \in UNION {[1..n -> [LangSet(languages) -> TrainForms]] :
                             n \in 0..MaxSets} :
          data = Keyed(rows)
    /\ \E c \in Configs : gap = c[1] /\ missing = c[2] /\ aligner = c[3]
    /\ alignments = <<>>
    /\ to_predict = <<>>
    /\ patterns = <<>>
    /\ sound2idx = <<>>
    /\ idx2sound = <<>>
    /\ matrices = <<>>
    /\ solutions = <<>>
    /\ prediction = <<>>
    /\ alignment = <<>>
    /\ taxa = <<>>
    /\ proto = ""
    /\ ungapped = <<>>
    /\ reungapped = <<>>
    /\ ratio = <<1, 10>>
    /\ training = <<>>
    /\ test_ = <<>>
    /\ test = <<>>

Construct ==
    /\ pc = "new"
    /\ alignments' = [l \in LangSet(languages) |->
                        AlignmentsOf(languages, data, l, Len(data))]
    /\ to_predict' = ToPredict(languages, data)
    /\ pc' = "constructed"
    /\ UNCHANGED <<languages, data, configVars, fitVars, solutions, prediction,
                   ungapVars, splitVars>>

Fit ==
    /\ pc = "constructed"
    /\ patterns' = [l \in LangSet(languages) |->
                      PatternsOf(languages, alignments, l, aligner,
                                 Len(alignments[l]))]
    /\ sound2idx' = Sound2idx(Sounds(patterns'), gap, missing)
    /\ idx2sound' = Idx2sound(sound2idx',
                              KeyOrder(Sounds(patterns'), gap, missing))
    /\ matrices' = [l \in LangSet(languages) |->
                      [i \in 1..Len(patterns'[l]) |->
                          EncodePattern(sound2idx', patterns'[l][i].ptn)]]
    /\ solutions' = [l \in LangSet(languages) |->
                       [i \in 1..Len(patterns'[l]) |->
                           sound2idx'[patterns'[l][i].sound]]]
    /\ pc' = "fitted"
    /\ UNCHANGED <<languages, data, configVars, alignments, to_predict,
                   prediction, ungapVars, splitVars>>

\* the attested languages of a call: all the others, or the first of them
PredictLanguages(target) ==
    {Others(languages, target), SubSeq(Others(languages, target), 1, 1)}

Predict ==
    /\ pc = "fitted"
    /\ \E target \in LangSet(languages), unknown \in {"?"} :
       \E languages_ \in PredictLanguages(target) :
       \E alignments_ \in [1..Len(languages_) -> PredictForms] :
          LET matrix == simple_align(alignments_, languages_,
                                     Others(languages, target), aligner)
              new_matrix == [i \in 1..Len(matrix) |->
                               [j \in 1..Len(matrix[i]) |->
                                   Encode(sound2idx, matrix[i][j])]]
          IN  \E codes \in ClassifierOutputs(Len(new_matrix)) :
                 LET out == [i \in 1..Len(codes) |->
                               Decode(idx2sound, codes[i], unknown)]
                 IN  prediction' = [languages |-> languages_,
                                    alignments |-> alignments_,
                                    target |-> target,
                                    unknown |-> unknown,
                                    matrix |-> matrix,
                                    new_matrix |-> new_matrix,
                                    predicted |-> codes,
                                    out |-> out,
                                    result |-> DropGaps(out)]
    /\ pc' = "predicted"
    /\ UNCHANGED <<languages, data, configVars, alignments, to_predict, fitVars,
                   solutions, ungapVars, splitVars>>

NextBaseline == Construct \/ Fit \/ Predict

SpecBaseline == InitBaseline /\ [][NextBaseline]_vars

----------------------------------------------------------------------------
(* Properties of ungap *)

Width(alignment_) == Len(alignment_[1])

Rectangular(alignment_) ==
    \A r \in 1..Len(alignment_) : Len(alignment_[r]) = Width(alignment_)

InputMerges == merges(alignment, taxa, proto)

\* C2: ungap is idempotent: applying ungap to its own result (same language
\* list, same reference language) gives that result again, cell for cell.
C2_UngapIdempotent ==
    pc = "ungap_twice" => reungapped = ungapped

\* a second call was made on a result in which columns had been fused
C2_Witness ==
    /\ pc = "ungap_twice"
    /\ InputMerges # {}
    /\ Width(ungapped) < Width(alignment)
    /\ Width(ungapped) >= 2
    /\ reungapped = ungapped

\* C3: every row of ungap's output has the same length, that length is at
\* most the input width, and with no merge target the output is the input.
C3_UngapWidth ==
    pc # "ungap" =>
        /\ Rectangular(ungapped)
        /\ Width(ungapped) <= Width(alignment)
        /\ (InputMerges = {} => ungapped = alignment)

\* ungap ran on an alignment with a merge target and shortened it
C3_Witness ==
    /\ pc = "ungap_once"
    /\ InputMerges # {}
    /\ Width(alignment) >= 3
    /\ Width(ungapped) < Width(alignment) - 1

\* ungap ran on an alignment of positive width without any merge target
C3_WitnessUnchanged ==
    /\ pc = "ungap_once"
    /\ InputMerges = {}
    /\ Width(alignment) > 0
    /\ ungapped = alignment

\* length of the run of marked columns the alignment begins with
RECURSIVE LeadingRun(_, _)
LeadingRun(merges_, k) ==
    IF (k + 1) \in merges_ THEN LeadingRun(merges_, k + 1) ELSE k

\* the non-gap cells of row[from..to] joined by the separator, or the gap
RECURSIVE JoinNonGap(_, _, _)
JoinNonGap(row, from, to) ==
    IF from > to
    THEN EmptyCell
    ELSE (IF row[from] = GapCell THEN EmptyCell ELSE row[from])
            \o JoinNonGap(row, from + 1, to)

FusedCell(row, from, to) ==
    IF JoinNonGap(row, from, to) = EmptyCell
    THEN GapCell
    ELSE JoinNonGap(row, from, to)

\* C4: a leading run of k >= 1 marked columns (no preceding normal column)
\* is fused into exactly one output column, and the columns after the run
\* follow the normal merge rule (every later marked column is fused into the
\* column before it), so the output has one column for the run plus one per
\* normal column.
C4_LeadingRunFused ==
    (pc # "ungap" /\ 1 \in InputMerges) =>
        \A r \in 1..Len(alignment) :
            /\ Len(ungapped[r]) =
                  1 + Cardinality((1..Width(alignment)) \ InputMerges)
            /\ ungapped[r][1] =
                  FusedCell(alignment[r], 1, LeadingRun(InputMerges, 0))

----------------------------------------------------------------------------
(* Properties of split_training_test_data *)

\* a real value: neither empty nor the placeholder
Real(form) == Join(form) \notin {"", "?"}

\* the (pool item, language index) pairs
PoolPairs == (1..Len(test_)) \X (1..Len(languages))

DerivedKey(p) == new_key(test_[p[1]].key, p[2])

\* C5: the training pool and the evaluation source pool partition the input
\* items (disjoint key sets whose union is the input key set), and every
\* training-pool item carries the values of the input item unmodified.
C5_SplitPartition ==
    pc = "split_done" =>
        /\ Keys(training) \cap Keys(test_) = {}
        /\ Keys(training) \cup Keys(test_) = Keys(data)
        /\ Len(training) + Len(test_) = Len(data)
        /\ \A i \in 1..Len(training) :
              training[i].values = Values(data, training[i].key)

\* a split that left items on both sides
C5_Witness ==
    /\ pc = "split_done"
    /\ Len(training) >= 1
    /\ Len(test_) >= 1
    /\ \E i \in 1..Len(training), l \in LangSet(languages) :
          Real(training[i].values[l])

\* C6: a derived item made from source item k with language L masked has k's
\* value for every other language, the single placeholder <<"?">> for L, and
\* the solutions map holds under the same derived key, for L only, k's
\* original value for L.
C6_DerivedItem ==
    pc = "split_done" =>
        /\ DOMAIN test = DOMAIN solutions
        /\ \A nk \in DOMAIN test : \E p \in PoolPairs : DerivedKey(p) = nk
        /\ \A p \in PoolPairs :
              DerivedKey(p) \in DOMAIN test =>
                 LET src == Values(data, test_[p[1]].key)
                     L == languages[p[2]]
                     item == test[DerivedKey(p)]
                 IN  /\ DOMAIN item = LangSet(languages)
                     /\ \A B \in LangSet(languages) \ {L} : item[B] = src[B]
                     /\ item[L] = <<"?">>
                     /\ DOMAIN solutions[DerivedKey(p)] = {L}
                     /\ solutions[DerivedKey(p)][L] = src[L]

\* a derived item whose masked language and another language had real values
C6_Witness ==
    /\ pc = "split_done"
    /\ \E p \in PoolPairs :
          /\ DerivedKey(p) \in DOMAIN test
          /\ Real(test_[p[1]].values[languages[p[2]]])
          /\ \E B \in LangSet(languages) \ {languages[p[2]]} :
                Real(test[DerivedKey(p)][B])
          /\ \E B \in LangSet(languages) \ {languages[p[2]]} :
                test[DerivedKey(p)][B] = <<>>

\* C7: exactly one derived item, under a key of its own, for each (pooled
\* item, language) pair whose value is real, and no derived item and no
\* solutions entry for a pair whose value is empty or the placeholder.
C7_OnePerRealPair ==
    pc = "split_done" =>
        /\ \A p \in PoolPairs :
              /\ DerivedKey(p) \in DOMAIN test
                    <=> Real(test_[p[1]].values[languages[p[2]]])
              /\ DerivedKey(p) \in DOMAIN solutions
                    <=> Real(test_[p[1]].values[languages[p[2]]])
        /\ Cardinality(DOMAIN test) =
              Cardinality({p \in PoolPairs :
                              Real(test_[p[1]].values[languages[p[2]]])})

----------------------------------------------------------------------------
(* Properties of Baseline *)

Fitted == pc \in {"fitted", "predicted"}

\* the symbols of the training contexts and labels
TrainingSymbols ==
    UNION {UNION {SeqRange(patterns[l][i].ptn) \cup {patterns[l][i].sound} :
                     i \in 1..Len(patterns[l])} :
              l \in DOMAIN patterns}

\* C1: after fit, with gap and missing distinct, every symbol of a training
\* context or label, the gap and the missing symbol decode back from their
\* code (idx2sound[sound2idx[s]] = s), the gap has code 1 and the missing
\* symbol code 0, whether or not they occur among the observed sounds.
C1_CodecRoundTrip ==
    (Fitted /\ gap # missing) =>
        /\ \A x \in TrainingSymbols \cup {gap, missing} :
              /\ x \in DOMAIN sound2idx
              /\ sound2idx[x] \in DOMAIN idx2sound
              /\ idx2sound[sound2idx[x]] = x
        /\ sound2idx[gap] = 1
        /\ sound2idx[missing] = 0

\* a fit whose observed sounds hold the gap, the missing symbol and two sounds
C1_Witness ==
    /\ pc = "fitted"
    /\ gap # missing
    /\ {gap, missing, "a", "b"} \subseteq TrainingSymbols

\* C8: no sequence returned by predict contains self.gap, and its length is
\* at most the number of alignment columns queried.
C8_NoGapInResult ==
    pc = "predicted" =>
        /\ gap \notin SeqRange(prediction.result)
        /\ Len(prediction.result) <= Len(prediction.new_matrix)

\* the symbols of the codec
CodecSymbols == {idx2sound[v] : v \in DOMAIN idx2sound}

\* C9: predict does not fail on unseen symbols: a cell whose symbol has no
\* code is encoded as 0, a classifier output without entry in idx2sound is
\* decoded to the unknown marker, one token per queried column, and every
\* token is a symbol of the codec or the unknown marker.
C9_UnseenSymbols ==
    pc = "predicted" =>
        /\ \A i \in 1..Len(prediction.matrix) :
           \A j \in 1..Len(prediction.matrix[i]) :
              /\ prediction.new_matrix[i][j] \in Nat
              /\ prediction.matrix[i][j] \notin DOMAIN sound2idx
                    => prediction.new_matrix[i][j] = 0
        /\ Len(prediction.out) = Len(prediction.matrix)
        /\ \A i \in 1..Len(prediction.out) :
              /\ prediction.predicted[i] \notin DOMAIN idx2sound
                    => prediction.out[i] = prediction.unknown
              /\ prediction.out[i] \in CodecSymbols \cup {prediction.unknown}
        /\ SeqRange(prediction.result)
              \subseteq CodecSymbols \cup {prediction.unknown}

\* a call with an unseen input symbol and a classifier output without symbol
C9_Witness ==
    /\ pc = "predicted"
    /\ \E i \in 1..Len(prediction.matrix) :
       \E j \in 1..Len(prediction.matrix[i]) :
          /\ prediction.matrix[i][j] = "z"
          /\ prediction.new_matrix[i][j] = 0
    /\ \E i \in 1..Len(prediction.out) :
          /\ prediction.predicted[i] \notin DOMAIN idx2sound
          /\ prediction.out[i] = prediction.unknown
          /\ prediction.unknown \in SeqRange(prediction.result)

\* the entry of self.alignments[l] an example was recorded from
EntryOf(l, cogid) ==
    alignments[l][CHOOSE k \in 1..Len(alignments[l]) :
                     alignments[l][k].cogid = cogid]

\* C10: for every target language L and every position of its training
\* matrix (one entry per language, L last), the recorded context is the
\* entries of all languages except L and the label is L's entry, so every
\* training context has width (number of languages - 1), the width of the
\* context vectors predict builds.
C10_ContextExcludesTarget ==
    Fitted =>
        \A l \in DOMAIN patterns : \A i \in 1..Len(patterns[l]) :
            LET e == patterns[l][i]
                row == TrainingMatrix(languages, l, EntryOf(l, e.cogid),
                                      aligner)[e.idx]
            IN  /\ e.ptn = SubSeq(row, 1, Len(languages) - 1)
                /\ e.sound = row[Len(languages)]
                /\ Len(matrices[l][i]) = Len(languages) - 1

\* the number of languages of a cognate set with a real value
AttestedCount(cogid) ==
    Cardinality({l \in LangSet(languages) : Real(Values(data, cogid)[l])})

\* C11: a cognate set with fewer than two attested languages contributes no
\* entry to self.alignments and no training example, for any language: the
\* examples of language L come only from cognate sets in which L and at
\* least one other language have a real value.
C11_UnderAttestedSkipped ==
    /\ \A l \in DOMAIN alignments : \A k \in 1..Len(alignments[l]) :
          /\ Real(Values(data, alignments[l][k].cogid)[l])
          /\ AttestedCount(alignments[l][k].cogid) >= 2
    /\ \A l \in DOMAIN patterns : \A i \in 1..Len(patterns[l]) :
          /\ Real(Values(data, patterns[l][i].cogid)[l])
          /\ AttestedCount(patterns[l][i].cogid) >= 2

\* the number of languages of an item with a real value
RealCount(item) ==
    Cardinality({l \in LangSet(languages) : Real(item.values[l])})

\* item x ranks before item y: more real values, or as many and earlier in
\* the input
RanksBefore(x, y) ==
    \/ RealCount(x) > RealCount(y)
    \/ RealCount(x) = RealCount(y) /\ Lookup(data, x.key) < Lookup(data, y.key)

\* k is ratio * n rounded to the nearest integer, a half rounded up
IsRounded(k, n, ratio_) ==
    /\ (2 * k - 1) * ratio_[2] <= 2 * n * ratio_[1]
    /\ 2 * n * ratio_[1] < (2 * k + 1) * ratio_[2]

\* C12: the evaluation source pool is exactly the first round(ratio * number
\* of items) items of the ranking by count of languages with a real value,
\* descending, equal counts in input order: every pooled item ranks before
\* every training item (a count at least as high, and among equal counts the
\* earlier input item is the pooled one), and both pools keep that order.
C12_PoolIsTopRanked ==
    pc = "split_done" =>
        /\ IsRounded(Len(test_), Len(data), ratio)
        /\ \A i \in 1..Len(test_), j \in 1..Len(training) :
              /\ RanksBefore(test_[i], training[j])
              /\ RealCount(test_[i]) >= RealCount(training[j])
        /\ \A i, j \in 1..Len(test_) : i < j => RanksBefore(test_[i], test_[j])
        /\ \A i, j \in 1..Len(training) :
              i < j => RanksBefore(training[i], training[j])

\* a split that had to choose between two items with as many real values
C12_Witness ==
    /\ pc = "split_done"
    /\ \E i \in 1..Len(test_), j \in 1..Len(training) :
          /\ RealCount(test_[i]) = RealCount(training[j])
          /\ RealCount(test_[i]) >= 1
          /\ Lookup(data, test_[i].key) < Lookup(data, training[j].key)

\* a split in which an item with more real values came later in the input
C12_WitnessReordered ==
    /\ pc = "split_done"
    /\ \E i \in 1..Len(test_), j \in 1..Len(training) :
          /\ RealCount(test_[i]) > RealCount(training[j])
          /\ Lookup(data, test_[i].key) > Lookup(data, training[j].key)

\* the columns of the input that are no merge target
NormalCols == (1..Width(alignment)) \ InputMerges

\* the c-th normal column of the input
NthNormal(c) ==
    CHOOSE j \in NormalCols : Cardinality({h \in NormalCols : h < j}) = c - 1

\* C13: when a run of marked columns follows a normal column, each row's
\* cell of the fused output column is the non-gap cells of the normal column
\* and of the run joined by ".", in column order (a gap cell contributes
\* nothing), and the gap when no cell of the row is left.
C13_FusedCellContents ==
    (pc # "ungap" /\ InputMerges # {} /\ 1 \notin InputMerges) =>
        \A c \in 1..Cardinality(NormalCols) :
            (NthNormal(c) + 1) \in InputMerges =>
                \A r \in 1..Len(alignment) :
                    /\ c <= Len(ungapped[r])
                    /\ ungapped[r][c] =
                          FusedCell(alignment[r], NthNormal(c),
                                    LeadingRun(InputMerges, NthNormal(c)))

====
